---- MODULE Spec2Model ----
(* A model of the notepad of src/main.py: the line-numbered editor        *)
(* (CodeEditor), the editor page with its file, search and zoom handlers  *)
(* (EditorInterface) and the theme toggle (SettingInterface).             *)
(* Each handler is one action.  The handlers are grouped into six         *)
(* specifications that share the variables below; a specification keeps   *)
(* the variables of the other groups at their initial values.             *)
EXTENDS Integers, Sequences, FiniteSets, TLC

VARIABLES
    op,               \* the handler that ran last ("init" after construction)
    \* ---- CodeEditor document, caret and decorations
    blocks,           \* the document: a sequence of blocks, each a sequence of characters
    anchor,           \* textCursor().anchor()
    position,         \* textCursor().position()
    extraSelections,  \* the list handed to setExtraSelections
    theme,            \* qconfig.theme
    readOnly,         \* isReadOnly()
    \* ---- search bar
    searchText,       \* searchEdit.text() read by the last search handler
    findCalls,        \* calls of editor.find made by the last search handler
    warnings,         \* InfoBar.warning calls made by the last search handler
    \* ---- files
    fs,               \* path -> file content (a sequence of bytes) or NoFile
    currentFile,      \* EditorInterface.currentFile
    linesep,          \* os.linesep of the platform
    ioAttempts,       \* open() calls made by the last file handler
    errorsShown,      \* showError calls made by the last file handler
    successShown,     \* showSuccess calls made by the last file handler
    unhandled,        \* TRUE when the last handler let an exception escape
    outcome,          \* "ok", "cancelled" or "failed": how the last file handler ended
    preCurrentFile,   \* currentFile when the last handler started
    preBlocks,        \* the document when the last handler started
    openedBytes,      \* bytes of the file shown unedited in the buffer, or NoFile
    \* ---- gutter width
    blockCount,       \* blockCount() of the editor
    fontAdvance,      \* fontMetrics().horizontalAdvance('9')
    viewportMargin,   \* left viewport margin set by setViewportMargins
    gutterWidth,      \* width given to lineNumberArea by resizeEvent
    width,            \* lineNumberAreaWidth at blockCount
    widthNext,        \* lineNumberAreaWidth at blockCount + 1
    \* ---- gutter paint
    heights,          \* laid-out height of each block
    visible,          \* isVisible() of each block
    firstVisible,     \* firstVisibleBlock().blockNumber()
    offsetY,          \* contentOffset().y()
    rectTop,          \* event.rect().top()
    rectHeight,       \* event.rect().height()
    drawn,            \* the drawText calls of the last paint
    stopBlock,        \* the block at which the paint loop stopped
    \* ---- zoom
    zoomLevel,        \* EditorInterface.zoomLevel
    lblZoom,          \* the percentage shown by lblZoom
    fontPointSize,    \* point size of the editor font
    zoomInsApplied,   \* editor.zoomIn(1) steps that changed the font
    zoomOutsApplied   \* editor.zoomOut(1) steps that changed the font

docVars    == <<blocks, anchor, position, extraSelections, theme, readOnly>>
searchVars == <<searchText, findCalls, warnings>>
fileVars   == <<fs, currentFile, linesep, ioAttempts, errorsShown, successShown,
                unhandled, outcome, preCurrentFile, preBlocks, openedBytes>>
gutterVars == <<blockCount, fontAdvance, viewportMargin, gutterWidth, width, widthNext>>
paintVars  == <<heights, visible, firstVisible, offsetY, rectTop, rectHeight, drawn, stopBlock>>
zoomVars   == <<zoomLevel, lblZoom, fontPointSize, zoomInsApplied, zoomOutsApplied>>
vars       == <<op, docVars, searchVars, fileVars, gutterVars, paintVars, zoomVars>>

\* ------------------------------------------------------------------ bounds
MaxBlockCount == 101   \* largest block count of the gutter specifications
MaxAdvance    == 2     \* largest digit advance of the font, in pixels
MaxPaste      == 10    \* most lines one edit inserts or removes

\* ------------------------------------------------------------- utilities
Max(a, b) == IF a >= b THEN a ELSE b

BSeq(S, n) == UNION {[1..k -> S] : k \in 0..n}

NoFile == <<-1>>         \* what fs holds for a path with no file: not a byte sequence
None   == "None"

\* ------------------------------------------------------------ gutter width
\* The loop of lineNumberAreaWidth: while max_val >= 10: max_val //= 10; digits += 1
RECURSIVE digitsLoop(_, _)
digitsLoop(max_val, digits) ==
    IF max_val >= 10 THEN digitsLoop(max_val \div 10, digits + 1) ELSE digits

\* The same loop with the test written "> 10".
RECURSIVE digitsLoopOffByOne(_, _)
digitsLoopOffByOne(max_val, digits) ==
    IF max_val > 10 THEN digitsLoopOffByOne(max_val \div 10, digits + 1) ELSE digits

GutterPadding == 24

lineNumberAreaWidthOffByOne(count, advance) ==
    GutterPadding + advance * digitsLoopOffByOne(Max(1, count), 1)

\* CodeEditor.lineNumberAreaWidth, of blockCount() and the font's digit advance
lineNumberAreaWidth(count, advance) ==
    GutterPadding + advance * digitsLoop(Max(1, count), 1)

updateLineNumberAreaWidthStale(count, advance, margin) == margin

\* CodeEditor.updateLineNumberAreaWidth: the new left viewport margin
updateLineNumberAreaWidth(count, advance, margin) ==
    lineNumberAreaWidth(count, advance)

\* ------------------------------------------------- groups held at rest
EmptyDocument == <<<<>>>>

DocIdle ==
    /\ blocks = EmptyDocument
    /\ anchor = 0
    /\ position = 0
    /\ extraSelections = <<>>
    /\ theme = "LIGHT"
    /\ readOnly = FALSE

SearchIdle ==
    /\ searchText = <<>>
    /\ findCalls = 0
    /\ warnings = 0

FileIdle ==
    /\ fs = <<>>
    /\ currentFile = None
    /\ linesep = <<10>>
    /\ ioAttempts = 0
    /\ errorsShown = 0
    /\ successShown = 0
    /\ unhandled = FALSE
    /\ outcome = "ok"
    /\ preCurrentFile = None
    /\ preBlocks = EmptyDocument
    /\ openedBytes = NoFile

GutterIdle ==
    /\ blockCount = 1
    /\ fontAdvance = 1
    /\ viewportMargin = 0
    /\ gutterWidth = 0
    /\ width = 0
    /\ widthNext = 0

PaintIdle ==
    /\ heights = <<>>
    /\ visible = <<>>
    /\ firstVisible = 0
    /\ offsetY = 0
    /\ rectTop = 0
    /\ rectHeight = 0
    /\ drawn = <<>>
    /\ stopBlock = 0

ZoomIdle ==
    /\ zoomLevel = 100
    /\ lblZoom = 100
    /\ fontPointSize = 11
    /\ zoomInsApplied = 0
    /\ zoomOutsApplied = 0

\* ================================================== gutter width (pure)
\* lineNumberAreaWidth measured at a block count N and at N + 1, one font.
InitWidth ==
    /\ op = "init"
    /\ blockCount \in 0..MaxBlockCount
    /\ fontAdvance \in 1..MaxAdvance
    /\ viewportMargin = 0
    /\ gutterWidth = 0
    /\ width = 0
    /\ widthNext = 0
    /\ DocIdle /\ SearchIdle /\ FileIdle /\ PaintIdle /\ ZoomIdle

\* LineNumberArea.sizeHint asks the editor for lineNumberAreaWidth()
sizeHint ==
    /\ op = "init"
    /\ op' = "sizeHint"
    /\ width' = lineNumberAreaWidth(blockCount, fontAdvance)
    /\ widthNext' = lineNumberAreaWidth(blockCount + 1, fontAdvance)
    /\ UNCHANGED <<blockCount, fontAdvance, viewportMargin, gutterWidth>>
    /\ UNCHANGED <<docVars, searchVars, fileVars, paintVars, zoomVars>>

NextWidth == sizeHint

SpecWidth == InitWidth /\ [][NextWidth]_vars

PowersOfTen == {10, 100, 1000, 10000}

\* C3: for a fixed font the gutter width is non-decreasing in the block count
\* N >= 0, it changes from N to N + 1 only when N + 1 is a power of ten, and
\* every N in 0..9 (N = 0 and N = 1 included) has the one-digit width.
C3_WidthStepsAtPowersOfTen ==
    op = "sizeHint" =>
        /\ widthNext >= width
        /\ (widthNext # width => blockCount + 1 \in PowersOfTen)
        /\ (blockCount <= 9 => width = GutterPadding + fontAdvance)

\* the width grows from 9 blocks to 10
C3_Witness ==
    /\ op = "sizeHint"
    /\ blockCount = 9
    /\ widthNext = width + fontAdvance

\* ======================================== gutter width under line edits
\* CodeEditor.__init__ : one empty block, updateLineNumberAreaWidth(0)
InitGutter ==
    /\ op = "init"
    /\ blockCount = 1
    /\ fontAdvance \in 1..MaxAdvance
    /\ viewportMargin = updateLineNumberAreaWidth(1, fontAdvance, 0)
    /\ gutterWidth = 0
    /\ width = 0
    /\ widthNext = 0
    /\ DocIdle /\ SearchIdle /\ FileIdle /\ PaintIdle /\ ZoomIdle

\* blockCountChanged is connected to updateLineNumberAreaWidth
blockCountChanged(newCount) ==
    /\ blockCount' = newCount
    /\ viewportMargin' = updateLineNumberAreaWidth(newCount, fontAdvance, viewportMargin)

\* an edit that adds k lines; the toolkit emits blockCountChanged
insertLines ==
    \E k \in 1..MaxPaste :
        /\ blockCount + k <= MaxBlockCount
        /\ op' = "insertLines"
        /\ blockCountChanged(blockCount + k)
        /\ UNCHANGED <<fontAdvance, gutterWidth, width, widthNext>>
        /\ UNCHANGED <<docVars, searchVars, fileVars, paintVars, zoomVars>>

\* an edit that removes k lines; the document keeps at least one block
removeLines ==
    \E k \in 1..MaxPaste :
        /\ blockCount - k >= 1
        /\ op' = "removeLines"
        /\ blockCountChanged(blockCount - k)
        /\ UNCHANGED <<fontAdvance, gutterWidth, width, widthNext>>
        /\ UNCHANGED <<docVars, searchVars, fileVars, paintVars, zoomVars>>

\* CodeEditor.updateLineNumberArea(rect, dy): the margin is recomputed when
\* the updated rectangle contains the whole viewport
updateLineNumberArea ==
    \E containsViewport \in BOOLEAN :
        /\ op' = "updateLineNumberArea"
        /\ viewportMargin' = IF containsViewport
                             THEN updateLineNumberAreaWidth(blockCount, fontAdvance, viewportMargin)
                             ELSE viewportMargin
        /\ UNCHANGED <<blockCount, fontAdvance, gutterWidth, width, widthNext>>
        /\ UNCHANGED <<docVars, searchVars, fileVars, paintVars, zoomVars>>

\* CodeEditor.resizeEvent: the gutter widget gets lineNumberAreaWidth() as width
resizeEvent ==
    /\ op' = "resizeEvent"
    /\ gutterWidth' = lineNumberAreaWidth(blockCount, fontAdvance)
    /\ UNCHANGED <<blockCount, fontAdvance, viewportMargin, width, widthNext>>
    /\ UNCHANGED <<docVars, searchVars, fileVars, paintVars, zoomVars>>

NextGutter ==
    \/ insertLines
    \/ removeLines
    \/ updateLineNumberArea
    \/ resizeEvent

SpecGutter == InitGutter /\ [][NextGutter]_vars

\* the number of decimal digits of n, by the powers of ten around it
DecimalDigits(n) ==
    CHOOSE d \in 1..5 : (d = 1 \/ n >= 10 ^ (d - 1)) /\ n < 10 ^ d

\* C8: after any sequence of line insertions and removals the left viewport
\* margin is lineNumberAreaWidth of the current block count, that is the
\* padding plus one digit advance per decimal digit of max(1, block count).
C8_MarginFollowsBlockCount ==
    /\ viewportMargin = lineNumberAreaWidth(blockCount, fontAdvance)
    /\ viewportMargin =
           GutterPadding + fontAdvance * DecimalDigits(Max(1, blockCount))

\* a removal took the document from three digits back to two
C8_Witness ==
    /\ op = "removeLines"
    /\ blockCount = 99
    /\ viewportMargin = GutterPadding + 2 * fontAdvance

\* ======================================================== gutter paint
MaxPaintBlocks == 3    \* most blocks of a painted document
MaxBlockHeight == 2    \* largest laid-out height of a block
MaxRectTop     == 2    \* largest top of a repaint rectangle
MaxRectHeight  == 2    \* largest height of a repaint rectangle
MaxScroll      == 1    \* most pixels the first visible block is scrolled out

\* QTextBlock.isValid for the block with 0-based index b
isValid(b) == b \in 0..(Len(heights) - 1)

\* QTextBlock.isVisible
isVisible(b) == isValid(b) /\ visible[b + 1]

\* blockBoundingRect(block).height(): an invalid or hidden block has no extent
blockBoundingRectHeight(b) == IF isVisible(b) THEN heights[b + 1] ELSE 0

\* QRect.bottom() is top + height - 1
rectBottom(top, height) == top + height - 1

lineNumberTextZeroBased(blockNumber) == blockNumber

\* number = str(blockNumber + 1), kept as the integer it prints
lineNumberText(blockNumber) == blockNumber + 1

\* The while loop of lineNumberAreaPaintEvent.  block is the iterated block,
\* blockNumber the counter the code keeps beside it, top and bottom the
\* running extents; acc collects the drawText calls.
RECURSIVE paintLoop(_, _, _, _, _, _, _)
paintLoop(block, blockNumber, top, bottom, rTop, rBottom, acc) ==
    IF isValid(block) /\ top <= rBottom
    THEN LET acc2 == IF isVisible(block) /\ bottom >= rTop
                     THEN Append(acc, [block  |-> block,
                                       y      |-> top,
                                       number |-> lineNumberText(blockNumber)])
                     ELSE acc
             next == block + 1
         IN  paintLoop(next, blockNumber + 1, bottom,
                       bottom + blockBoundingRectHeight(next), rTop, rBottom, acc2)
    ELSE [drawn |-> acc, stop |-> block]

\* The layouts the paint is run on: 1..MaxPaintBlocks blocks, any first
\* visible block, the first visible block scrolled out by 0..MaxScroll pixels.
InitPaint ==
    /\ op = "init"
    /\ \E n \in 1..MaxPaintBlocks :
          /\ heights \in [1..n -> 1..MaxBlockHeight]
          /\ visible \in [1..n -> BOOLEAN]
          /\ firstVisible \in 0..(n - 1)
    /\ offsetY \in (0 - MaxScroll)..0
    /\ rectTop = 0
    /\ rectHeight = 0
    /\ drawn = <<>>
    /\ stopBlock = 0
    /\ DocIdle /\ SearchIdle /\ FileIdle /\ GutterIdle /\ ZoomIdle

\* CodeEditor.lineNumberAreaPaintEvent(event) for a repaint rectangle
lineNumberAreaPaintEvent ==
    \E rTop \in 0..MaxRectTop, rHeight \in 1..MaxRectHeight :
        LET block  == firstVisible
            top    == offsetY
            bottom == top + blockBoundingRectHeight(block)
            result == paintLoop(block, block, top, bottom,
                                rTop, rectBottom(rTop, rHeight), <<>>)
        IN  /\ op' = "lineNumberAreaPaintEvent"
            /\ rectTop' = rTop
            /\ rectHeight' = rHeight
            /\ drawn' = result.drawn
            /\ stopBlock' = result.stop
            /\ UNCHANGED <<heights, visible, firstVisible, offsetY>>
            /\ UNCHANGED <<docVars, searchVars, fileVars, gutterVars, zoomVars>>

NextPaint == lineNumberAreaPaintEvent

SpecPaint == InitPaint /\ [][NextPaint]_vars

\* the top of block b in viewport coordinates, from the layout: the content
\* offset plus the extents of the blocks from the first visible one up to b
RECURSIVE BlockTop(_)
BlockTop(b) ==
    IF b <= firstVisible THEN offsetY
    ELSE BlockTop(b - 1) + blockBoundingRectHeight(b - 1)

BlockBottom(b) == BlockTop(b) + blockBoundingRectHeight(b)

\* the first block at or after the first visible one that is past the end of
\* the document or starts below the rectangle
FirstStop ==
    CHOOSE b \in firstVisible..Len(heights) :
        /\ (b = Len(heights) \/ BlockTop(b) > rectBottom(rectTop, rectHeight))
        /\ \A c \in firstVisible..(b - 1) :
               BlockTop(c) <= rectBottom(rectTop, rectHeight)

\* C5: every number the gutter paint draws for a block is the block's 0-based
\* index + 1, it is drawn only for a visible block whose extent [top, bottom]
\* meets the repaint rectangle, and the loop stops at the first block that
\* starts below the rectangle or at the end of the document.
C5_PaintNumbersBlocks ==
    op = "lineNumberAreaPaintEvent" =>
        /\ \A i \in 1..Len(drawn) :
               /\ drawn[i].number = drawn[i].block + 1
               /\ isVisible(drawn[i].block)
               /\ BlockTop(drawn[i].block) <= rectBottom(rectTop, rectHeight)
               /\ BlockBottom(drawn[i].block) >= rectTop
        /\ stopBlock = FirstStop

\* a paint that skips a block above the rectangle, draws the number of the
\* next block and stops at a block below the rectangle
C5_Witness ==
    /\ op = "lineNumberAreaPaintEvent"
    /\ firstVisible = 0
    /\ BlockBottom(0) < rectTop
    /\ Len(drawn) = 1
    /\ drawn[1].block = 1
    /\ drawn[1].number = 2
    /\ stopBlock = 2
    /\ stopBlock < Len(heights)

\* ================================================================ zoom
MaxZoomIns == 6        \* most zoomIn steps of a run

InitialZoomLevel == 100
InitialPointSize == 11
ZoomStep         == 10
MinZoomLevel     == 10

\* QPlainTextEdit.zoomIn(range) / zoomOut(range): the point size moves by
\* range unless the new size would not be positive
editorZoom(pointSize, range) ==
    IF pointSize + range <= 0 THEN pointSize ELSE pointSize + range

\* EditorInterface.__init__ and CodeEditor.__init__: 100 %, Consolas 11
InitZoom ==
    /\ op = "init"
    /\ zoomLevel = InitialZoomLevel
    /\ lblZoom = InitialZoomLevel
    /\ fontPointSize = InitialPointSize
    /\ zoomInsApplied = 0
    /\ zoomOutsApplied = 0
    /\ DocIdle /\ SearchIdle /\ FileIdle /\ GutterIdle /\ PaintIdle

\* EditorInterface.zoomIn
zoomIn ==
    /\ zoomInsApplied < MaxZoomIns
    /\ op' = "zoomIn"
    /\ fontPointSize' = editorZoom(fontPointSize, 1)
    /\ zoomInsApplied' = IF fontPointSize' # fontPointSize
                         THEN zoomInsApplied + 1 ELSE zoomInsApplied
    /\ zoomLevel' = zoomLevel + ZoomStep
    /\ lblZoom' = zoomLevel'
    /\ UNCHANGED zoomOutsApplied
    /\ UNCHANGED <<docVars, searchVars, fileVars, gutterVars, paintVars>>

\* EditorInterface.zoomOut
zoomOut ==
    /\ op' = "zoomOut"
    /\ fontPointSize' = editorZoom(fontPointSize, -1)
    /\ zoomOutsApplied' = IF fontPointSize' # fontPointSize
                          THEN zoomOutsApplied + 1 ELSE zoomOutsApplied
    /\ zoomLevel' = Max(MinZoomLevel, zoomLevel - ZoomStep)
    /\ lblZoom' = zoomLevel'
    /\ UNCHANGED zoomInsApplied
    /\ UNCHANGED <<docVars, searchVars, fileVars, gutterVars, paintVars>>

NextZoom ==
    \/ zoomIn
    \/ zoomOut

SpecZoom == InitZoom /\ [][NextZoom]_vars

\* C10: the displayed zoom percentage is 100 + 10 * (zoomIn steps applied to
\* the editor font - zoomOut steps applied to it), the label shows it, and it
\* is never below 10.
C10_ZoomLevelTracksFont ==
    /\ zoomLevel = InitialZoomLevel + ZoomStep * (zoomInsApplied - zoomOutsApplied)
    /\ lblZoom = zoomLevel
    /\ zoomLevel >= MinZoomLevel

\* ==================================================== document and text
LF == 10               \* "\n"
CR == 13               \* "\r"
CharA == 97            \* "a"
CharB == 98            \* "b"

\* QPlainTextEdit.toPlainText: the blocks joined by "\n"
RECURSIVE toPlainText(_)
toPlainText(bs) ==
    IF Len(bs) = 0 THEN <<>>
    ELSE IF Len(bs) = 1 THEN bs[1]
    ELSE bs[1] \o <<LF>> \o toPlainText(Tail(bs))

\* QPlainTextEdit.setPlainText: one block per "\n"-separated line
RECURSIVE setPlainText(_)
setPlainText(t) ==
    IF \A i \in 1..Len(t) : t[i] # LF THEN <<t>>
    ELSE LET k == CHOOSE i \in 1..Len(t) :
                      t[i] = LF /\ \A j \in 1..(i - 1) : t[j] # LF
         IN  <<SubSeq(t, 1, k - 1)>> \o setPlainText(SubSeq(t, k + 1, Len(t)))

\* QTextCursor.blockNumber() of a cursor at document position pos
blockNumberAt(bs, pos) ==
    Cardinality({i \in 1..pos : toPlainText(bs)[i] = LF})

\* ============================================ current-line highlighter
DarkLineColor  == <<255, 255, 255, 10>>
LightLineColor == <<0, 0, 0, 8>>

highlightCurrentLineKeepSelection(ro, th, anc, pos) ==
    IF ~ro
    THEN <<[color     |-> IF th = "DARK" THEN DarkLineColor ELSE LightLineColor,
            fullWidth |-> TRUE,
            anchor    |-> anc,
            position  |-> pos]>>
    ELSE <<>>

\* CodeEditor.highlightCurrentLine: the list given to setExtraSelections.
\* selection.cursor is a copy of textCursor() with its selection cleared.
highlightCurrentLine(ro, th, anc, pos) ==
    IF ~ro
    THEN <<[color     |-> IF th = "DARK" THEN DarkLineColor ELSE LightLineColor,
            fullWidth |-> TRUE,
            anchor    |-> pos,
            position  |-> pos]>>
    ELSE <<>>

\* cursorPositionChanged is connected to highlightCurrentLine: the list
\* after the caret went from oldPos to newPos (anchor newAnc)
cursorPositionChanged(sels, ro, th, oldPos, newAnc, newPos) ==
    IF newPos # oldPos THEN highlightCurrentLine(ro, th, newAnc, newPos) ELSE sels

\* A cursor of the document follows an edit that replaces [s, e) by k
\* characters: the extra selection holds such a cursor.
adjustPosition(p, s, e, k) ==
    LET afterRemove == IF p >= e THEN p - (e - s) ELSE IF p > s THEN s ELSE p
    IN  IF afterRemove >= s THEN afterRemove + k ELSE afterRemove

adjustSelections(sels, s, e, k) ==
    [i \in 1..Len(sels) |->
        [sels[i] EXCEPT !.anchor   = adjustPosition(@, s, e, k),
                        !.position = adjustPosition(@, s, e, k)]]

\* ============================================== editor page: edit, search
MaxDocLen     == 3     \* most characters of the document
MaxPatternLen == 2     \* most characters of a search text

TypedChars   == {CharA, CharB, LF}
PatternChars == {CharA, CharB}

selectionStart == IF anchor <= position THEN anchor ELSE position
selectionEnd   == IF anchor >= position THEN anchor ELSE position

\* pat occurs in t at 0-based offset s
matchAt(t, pat, s) ==
    /\ s + Len(pat) <= Len(t)
    /\ \A i \in 1..Len(pat) : t[s + i] = pat[i]

\* editor.find(text): the first match starting at or after from, or -1
findForward(t, pat, from) ==
    LET M == {s \in from..Len(t) : matchAt(t, pat, s)}
    IN  IF M = {} THEN -1 ELSE CHOOSE s \in M : \A u \in M : s <= u

\* editor.find(text, FindBackward): the last match starting before from, or -1
findBackward(t, pat, from) ==
    LET M == {s \in 0..(from - 1) : matchAt(t, pat, s)}
    IN  IF M = {} THEN -1 ELSE CHOOSE s \in M : \A u \in M : s >= u

\* EditorInterface.__init__ : an empty editor, the default light theme, the
\* highlight computed once by CodeEditor.__init__
InitEditor ==
    /\ op = "init"
    /\ blocks = EmptyDocument
    /\ anchor = 0
    /\ position = 0
    /\ theme = "LIGHT"
    /\ readOnly = FALSE
    /\ extraSelections = highlightCurrentLine(readOnly, theme, 0, 0)
    /\ SearchIdle
    /\ FileIdle /\ GutterIdle /\ PaintIdle /\ ZoomIdle

NoSearch ==
    /\ searchText' = <<>>
    /\ findCalls' = 0
    /\ warnings' = 0

\* the caret is moved by a key or the mouse, with or without Shift
moveCursor ==
    \E p \in 0..Len(toPlainText(blocks)), keepAnchor \in BOOLEAN :
        LET a == IF keepAnchor THEN anchor ELSE p
        IN  /\ <<a, p>> # <<anchor, position>>
            /\ op' = "moveCursor"
            /\ anchor' = a
            /\ position' = p
            /\ extraSelections' = cursorPositionChanged(extraSelections, readOnly, theme,
                                                        position, a, p)
            /\ NoSearch
            /\ UNCHANGED <<blocks, theme, readOnly>>
            /\ UNCHANGED <<fileVars, gutterVars, paintVars, zoomVars>>

\* the document after [s, e) is replaced by ins, the caret left after ins
replaceSelection(s, e, ins) ==
    LET t  == toPlainText(blocks)
        t2 == SubSeq(t, 1, s) \o ins \o SubSeq(t, e + 1, Len(t))
        p  == s + Len(ins)
    IN  /\ blocks' = setPlainText(t2)
        /\ anchor' = p
        /\ position' = p
        /\ extraSelections' =
               cursorPositionChanged(adjustSelections(extraSelections, s, e, Len(ins)),
                                     readOnly, theme, position, p, p)

\* a character or a line break is typed over the selection
insertText ==
    \E c \in TypedChars :
        /\ ~readOnly
        /\ Len(toPlainText(blocks)) - (selectionEnd - selectionStart) < MaxDocLen
        /\ op' = "insertText"
        /\ replaceSelection(selectionStart, selectionEnd, <<c>>)
        /\ NoSearch
        /\ UNCHANGED <<theme, readOnly>>
        /\ UNCHANGED <<fileVars, gutterVars, paintVars, zoomVars>>

\* Delete or Backspace: the selection, or the character after or before the caret
deleteText ==
    \E forward \in BOOLEAN :
        LET n == Len(toPlainText(blocks))
            s == IF anchor # position THEN selectionStart
                 ELSE IF forward THEN position ELSE Max(0, position - 1)
            e == IF anchor # position THEN selectionEnd
                 ELSE IF forward THEN (IF position < n THEN position + 1 ELSE position)
                 ELSE position
        IN  /\ ~readOnly
            /\ e > s
            /\ op' = "deleteText"
            /\ replaceSelection(s, e, <<>>)
            /\ NoSearch
            /\ UNCHANGED <<theme, readOnly>>
            /\ UNCHANGED <<fileVars, gutterVars, paintVars, zoomVars>>

\* editor.setPlainText(text) of openFile and editor.clear() of newFile: the
\* document is replaced, the caret goes to the start and the toolkit emits
\* cursorPositionChanged once the new content is in place
setDocument ==
    \E t \in BSeq(TypedChars, MaxDocLen) :
        /\ t # toPlainText(blocks)
        /\ op' = "setDocument"
        /\ blocks' = setPlainText(t)
        /\ anchor' = 0
        /\ position' = 0
        /\ extraSelections' = highlightCurrentLine(readOnly, theme, 0, 0)
        /\ NoSearch
        /\ UNCHANGED <<theme, readOnly>>
        /\ UNCHANGED <<fileVars, gutterVars, paintVars, zoomVars>>

\* EditorInterface.searchNext
searchNext ==
    \E text \in BSeq(PatternChars, MaxPatternLen) :
        LET t  == toPlainText(blocks)
            r1 == findForward(t, text, selectionEnd)
            r2 == findForward(t, text, 0)
            \* the highlight after moveCursor(Start)
            atStart == cursorPositionChanged(extraSelections, readOnly, theme,
                                             position, 0, 0)
        IN  /\ op' = "searchNext"
            /\ searchText' = text
            /\ UNCHANGED <<blocks, theme, readOnly>>
            /\ UNCHANGED <<fileVars, gutterVars, paintVars, zoomVars>>
            /\ IF text = <<>>
               THEN /\ findCalls' = 0
                    /\ warnings' = 0
                    /\ UNCHANGED <<anchor, position, extraSelections>>
               ELSE IF r1 >= 0
               THEN /\ findCalls' = 1
                    /\ warnings' = 0
                    /\ anchor' = r1
                    /\ position' = r1 + Len(text)
                    /\ extraSelections' =
                           cursorPositionChanged(extraSelections, readOnly, theme,
                                                 position, r1, r1 + Len(text))
               ELSE IF r2 >= 0
               THEN /\ findCalls' = 2
                    /\ warnings' = 0
                    /\ anchor' = r2
                    /\ position' = r2 + Len(text)
                    /\ extraSelections' =
                           cursorPositionChanged(atStart, readOnly, theme,
                                                 0, r2, r2 + Len(text))
               ELSE /\ findCalls' = 2
                    /\ warnings' = 1
                    /\ anchor' = 0
                    /\ position' = 0
                    /\ extraSelections' = atStart

\* EditorInterface.searchPrev
searchPrev ==
    \E text \in BSeq(PatternChars, MaxPatternLen) :
        LET t  == toPlainText(blocks)
            n  == Len(t)
            r1 == findBackward(t, text, selectionStart)
            r2 == findBackward(t, text, n)
            \* the highlight after moveCursor(End)
            atEnd == cursorPositionChanged(extraSelections, readOnly, theme,
                                           position, n, n)
        IN  /\ op' = "searchPrev"
            /\ searchText' = text
            /\ warnings' = 0
            /\ UNCHANGED <<blocks, theme, readOnly>>
            /\ UNCHANGED <<fileVars, gutterVars, paintVars, zoomVars>>
            /\ IF text = <<>>
               THEN /\ findCalls' = 0
                    /\ UNCHANGED <<anchor, position, extraSelections>>
               ELSE IF r1 >= 0
               THEN /\ findCalls' = 1
                    /\ anchor' = r1
                    /\ position' = r1 + Len(text)
                    /\ extraSelections' =
                           cursorPositionChanged(extraSelections, readOnly, theme,
                                                 position, r1, r1 + Len(text))
               ELSE IF r2 >= 0
               THEN /\ findCalls' = 2
                    /\ anchor' = r2
                    /\ position' = r2 + Len(text)
                    /\ extraSelections' =
                           cursorPositionChanged(atEnd, readOnly, theme,
                                                 n, r2, r2 + Len(text))
               ELSE /\ findCalls' = 2
                    /\ anchor' = n
                    /\ position' = n
                    /\ extraSelections' = atEnd

\* SettingInterface.toggleTheme: setTheme swaps qconfig.theme
toggleTheme ==
    /\ op' = "toggleTheme"
    /\ theme' = IF theme = "DARK" THEN "LIGHT" ELSE "DARK"
    /\ NoSearch
    /\ UNCHANGED <<blocks, anchor, position, extraSelections, readOnly>>
    /\ UNCHANGED <<fileVars, gutterVars, paintVars, zoomVars>>

NextEditor ==
    \/ moveCursor
    \/ insertText
    \/ deleteText
    \/ setDocument
    \/ searchNext
    \/ searchPrev
    \/ toggleTheme

SpecEditor == InitEditor /\ [][NextEditor]_vars

\* pat occurs somewhere in t
Occurs(t, pat) == \E s \in 0..Len(t) : matchAt(t, pat, s)

\* C2: a search, forward or backward, for a non-empty text that does not
\* occur in the buffer makes exactly two find attempts (from the caret, then
\* once more after wrapping around) and then reports not-found.
C2_AbsentSearchWrapsOnceThenReports ==
    (/\ op \in {"searchNext", "searchPrev"}
     /\ searchText # <<>>
     /\ ~Occurs(toPlainText(blocks), searchText))
        => (findCalls = 2 /\ warnings = 1)

C7_HighlightColourFollowsTheme ==
    \A i \in 1..Len(extraSelections) :
        extraSelections[i].color =
            (IF theme = "DARK" THEN DarkLineColor ELSE LightLineColor)

\* =============================================================== files
MaxFileLen == 2        \* most bytes of the file on disk at the start
MaxTypedLen == 1       \* typing stops at this many characters in the buffer

LeadC3 == 195          \* 0xC3, the lead byte of a two-byte UTF-8 sequence
ContA9 == 169          \* 0xA9, a continuation byte; C3 A9 encodes U+00E9

Paths     == {"p1", "p2"}
Cancelled == ""        \* the path a cancelled file dialog returns
FileBytes == {CharA, CR, LF, LeadC3, ContA9}
DecodeError == "UnicodeDecodeError"
Undecodable == <<-2>>  \* what decoding yields for invalid UTF-8: not a text

\* bytes.decode('utf-8') for one- and two-byte sequences: the code points,
\* or Undecodable for a stray continuation byte or a lead byte without one
RECURSIVE decodeUtf8(_)
decodeUtf8(bytes) ==
    IF bytes = <<>> THEN <<>>
    ELSE IF bytes[1] < 128
    THEN LET rest == decodeUtf8(Tail(bytes))
         IN  IF rest = Undecodable THEN Undecodable ELSE <<bytes[1]>> \o rest
    ELSE IF /\ bytes[1] \in 194..223
            /\ Len(bytes) >= 2
            /\ bytes[2] \in 128..191
    THEN LET rest == decodeUtf8(SubSeq(bytes, 3, Len(bytes)))
         IN  IF rest = Undecodable THEN Undecodable
             ELSE <<(bytes[1] - 192) * 64 + (bytes[2] - 128)>> \o rest
    ELSE Undecodable

\* str.encode('utf-8') for code points below U+0800
RECURSIVE encodeUtf8(_)
encodeUtf8(chars) ==
    IF chars = <<>> THEN <<>>
    ELSE (IF chars[1] < 128 THEN <<chars[1]>>
          ELSE <<192 + (chars[1] \div 64), 128 + (chars[1] % 64)>>)
         \o encodeUtf8(Tail(chars))

\* open(path, 'r') reads with universal newlines: "\r\n" and "\r" become "\n"
RECURSIVE translateRead(_)
translateRead(chars) ==
    IF chars = <<>> THEN <<>>
    ELSE IF chars[1] = CR /\ Len(chars) >= 2 /\ chars[2] = LF
    THEN <<LF>> \o translateRead(SubSeq(chars, 3, Len(chars)))
    ELSE IF chars[1] = CR
    THEN <<LF>> \o translateRead(Tail(chars))
    ELSE <<chars[1]>> \o translateRead(Tail(chars))

\* open(path, 'w') writes "\n" as os.linesep
RECURSIVE translateWrite(_, _)
translateWrite(chars, sep) ==
    IF chars = <<>> THEN <<>>
    ELSE (IF chars[1] = LF THEN sep ELSE <<chars[1]>>)
         \o translateWrite(Tail(chars), sep)

\* f.read() of open(path, 'r', encoding='utf-8'): the text, or Undecodable
readText(bytes) ==
    IF decodeUtf8(bytes) = Undecodable THEN Undecodable
    ELSE translateRead(decodeUtf8(bytes))

\* f.write(text) of open(path, 'w', encoding='utf-8'): the bytes written
writeText(chars, sep) == encodeUtf8(translateWrite(chars, sep))

OSErrors == {"FileNotFoundError", "PermissionError", "OSError"}

caughtByExceptOSErrorOnly(exc) == exc \in OSErrors

\* "except Exception as e": every I/O and codec exception is an Exception
caughtByExcept(exc) == exc \in OSErrors \cup {DecodeError}

\* EditorInterface.__init__ on either platform, one file on disk
InitFile ==
    /\ op = "init"
    /\ \E bytes \in BSeq(FileBytes, MaxFileLen) :
          fs = [p \in Paths |-> IF p = "p1" THEN bytes ELSE NoFile]
    /\ linesep \in {<<LF>>, <<CR, LF>>}
    /\ currentFile = None
    /\ ioAttempts = 0
    /\ errorsShown = 0
    /\ successShown = 0
    /\ unhandled = FALSE
    /\ outcome = "ok"
    /\ preCurrentFile = None
    /\ preBlocks = EmptyDocument
    /\ openedBytes = NoFile
    /\ DocIdle /\ SearchIdle /\ GutterIdle /\ PaintIdle /\ ZoomIdle

\* the except branch: showError when the handler catches, else the exception escapes
raised(exc) ==
    /\ outcome' = exc
    /\ successShown' = 0
    /\ errorsShown' = IF caughtByExcept(exc) THEN 1 ELSE 0
    /\ unhandled' = ~caughtByExcept(exc)

\* EditorInterface.openFile; path is what the dialog returns, fault what
\* the operating system answers to open()
openFile ==
    \E path \in Paths \cup {Cancelled}, fault \in {"none", "PermissionError"} :
        /\ op' = "openFile"
        /\ preCurrentFile' = currentFile
        /\ preBlocks' = blocks
        /\ UNCHANGED <<fs, linesep, anchor, position, extraSelections, theme, readOnly>>
        /\ UNCHANGED <<searchVars, gutterVars, paintVars, zoomVars>>
        /\ IF path = Cancelled
           THEN /\ fault = "none"
                /\ outcome' = "cancelled"
                /\ ioAttempts' = 0
                /\ errorsShown' = 0
                /\ successShown' = 0
                /\ unhandled' = FALSE
                /\ UNCHANGED <<blocks, currentFile, openedBytes>>
           ELSE /\ ioAttempts' = 1
                /\ IF fs[path] = NoFile
                   THEN /\ fault = "none"
                        /\ raised("FileNotFoundError")
                        /\ UNCHANGED <<blocks, currentFile, openedBytes>>
                   ELSE IF fault # "none"
                   THEN /\ raised(fault)
                        /\ UNCHANGED <<blocks, currentFile, openedBytes>>
                   ELSE IF readText(fs[path]) = Undecodable
                   THEN /\ raised(DecodeError)
                        /\ UNCHANGED <<blocks, currentFile, openedBytes>>
                   ELSE /\ blocks' = setPlainText(readText(fs[path]))
                        /\ currentFile' = path
                        /\ openedBytes' = fs[path]
                        /\ outcome' = "ok"
                        /\ successShown' = 1
                        /\ errorsShown' = 0
                        /\ unhandled' = FALSE

\* EditorInterface.saveFile; path is what the save dialog returns when the
\* buffer has no file yet.  PermissionError: open() fails and the file is
\* untouched; OSError: the write fails after open() truncated the file.
saveFile ==
    \E path \in Paths \cup {Cancelled}, fault \in {"none", "PermissionError", "OSError"} :
        LET target == IF currentFile = None THEN path ELSE currentFile
        IN  /\ currentFile # None => path = Cancelled
            /\ op' = "saveFile"
            /\ preCurrentFile' = currentFile
            /\ preBlocks' = blocks
            /\ UNCHANGED <<linesep, openedBytes>>
            /\ UNCHANGED <<docVars, searchVars, gutterVars, paintVars, zoomVars>>
            /\ IF target = Cancelled
               THEN /\ fault = "none"
                    /\ outcome' = "cancelled"
                    /\ ioAttempts' = 0
                    /\ errorsShown' = 0
                    /\ successShown' = 0
                    /\ unhandled' = FALSE
                    /\ UNCHANGED <<fs, currentFile>>
               ELSE /\ currentFile' = target
                    /\ ioAttempts' = 1
                    /\ IF fault = "PermissionError"
                       THEN /\ raised(fault)
                            /\ UNCHANGED fs
                       ELSE IF fault = "OSError"
                       THEN /\ raised(fault)
                            /\ fs' = [fs EXCEPT ![target] = <<>>]
                       ELSE /\ fs' = [fs EXCEPT ![target] =
                                         writeText(toPlainText(blocks), linesep)]
                            /\ outcome' = "ok"
                            /\ successShown' = 1
                            /\ errorsShown' = 0
                            /\ unhandled' = FALSE

\* EditorInterface.newFile
newFile ==
    /\ op' = "newFile"
    /\ blocks' = EmptyDocument
    /\ currentFile' = None
    /\ openedBytes' = NoFile
    /\ outcome' = "ok"
    /\ ioAttempts' = 0
    /\ successShown' = 1
    /\ errorsShown' = 0
    /\ unhandled' = FALSE
    /\ preCurrentFile' = currentFile
    /\ preBlocks' = blocks
    /\ UNCHANGED <<fs, linesep>>
    /\ UNCHANGED <<anchor, position, extraSelections, theme, readOnly>>
    /\ UNCHANGED <<searchVars, gutterVars, paintVars, zoomVars>>

\* the user types a character at the end of the buffer
typeText ==
    \E c \in {CharA, LF} :
        /\ Len(toPlainText(blocks)) < MaxTypedLen
        /\ op' = "typeText"
        /\ blocks' = setPlainText(toPlainText(blocks) \o <<c>>)
        /\ openedBytes' = NoFile
        /\ outcome' = "ok"
        /\ ioAttempts' = 0
        /\ successShown' = 0
        /\ errorsShown' = 0
        /\ unhandled' = FALSE
        /\ preCurrentFile' = currentFile
        /\ preBlocks' = blocks
        /\ UNCHANGED <<fs, currentFile, linesep>>
        /\ UNCHANGED <<anchor, position, extraSelections, theme, readOnly>>
        /\ UNCHANGED <<searchVars, gutterVars, paintVars, zoomVars>>

NextFile ==
    \/ openFile
    \/ saveFile
    \/ newFile
    \/ typeText

SpecFile == InitFile /\ [][NextFile]_vars

\* C1: a save that follows the opening of a file F with no edit in between
\* leaves at the same path exactly the bytes of F.
C1_OpenSaveRoundTrip ==
    (op = "saveFile" /\ outcome = "ok" /\ openedBytes # NoFile)
        => fs[currentFile] = openedBytes

\* C6: an openFile or saveFile whose read, decode or write raises shows
\* exactly one error notification and no success notification, makes one
\* I/O attempt only, and lets no exception escape the handler.
C6_FailureShowsOneError ==
    (op \in {"openFile", "saveFile"} /\ outcome \notin {"ok", "cancelled"})
        => /\ errorsShown = 1
           /\ successShown = 0
           /\ ioAttempts = 1
           /\ ~unhandled

\* a file that is not valid UTF-8 was opened and refused
C6_Witness ==
    /\ op = "openFile"
    /\ outcome = DecodeError
    /\ errorsShown = 1

\* C9: an openFile or saveFile that fails or is cancelled leaves currentFile
\* and the buffer as they were before it.
C9_FailureKeepsFileState ==
    (op \in {"openFile", "saveFile"} /\ outcome # "ok")
        => (currentFile = preCurrentFile /\ blocks = preBlocks)

====
